---- MODULE Spec2Model ----
(***************************************************************************)
(* Telford Community Board: token lifecycle, credential verification and   *)
(* authorization decisions of the authentication subsystem.                *)
(*                                                                         *)
(* State: the process environment (JWT secrets, NODE_ENV), the users       *)
(* table, the clock in seconds, the rate limiters' counters, the register  *)
(* requests between their existence check and their INSERT, and the        *)
(* outcome of the last operation.                                          *)
(***************************************************************************)
EXTENDS Integers, Sequences, FiniteSets, TLC

VARIABLES env, users, nextId, now, lim, inflight, last

vars == <<env, users, nextId, now, lim, inflight, last>>

(***************************************************************************)
(* Bounds of the model                                                     *)
(***************************************************************************)
\* rows the users table may hold
MaxUsers == 2
\* last second the clock may reach
MaxNow == 604801
\* hits all rate-limit counters hold together
MaxHits == 7
\* requests let through by a limiter and not yet answered
MaxPending == 2
\* register requests that may be between their check and their INSERT
MaxInflight == 2

(***************************************************************************)
(* JWT configuration (config/jwt.js)                                       *)
(***************************************************************************)
ACCESS_TOKEN_EXPIRY == 900
REFRESH_TOKEN_EXPIRY == 604800
RESET_TOKEN_EXPIRY == 3600

TOKEN_TYPES == {"access", "refresh", "reset"}

\* an environment variable that is not set
NoSecret == "unset"
\* a claim or field that is undefined in JS
Undefined == "undefined"
NoId == 0

\* process.env as the server reads it; fixed for the life of the process
EnvConfigs ==
    { [access |-> NoSecret, refresh |-> NoSecret, reset |-> NoSecret, shared |-> "k0", nodeEnv |-> "development"],
      [access |-> "ka", refresh |-> "kr", reset |-> "kp", shared |-> NoSecret, nodeEnv |-> "production"],
      [access |-> "ka", refresh |-> NoSecret, reset |-> NoSecret, shared |-> "k0", nodeEnv |-> "production"],
      [access |-> NoSecret, refresh |-> "kr", reset |-> NoSecret, shared |-> NoSecret, nodeEnv |-> "production"],
      [access |-> "ka", refresh |-> NoSecret, reset |-> NoSecret, shared |-> NoSecret, nodeEnv |-> "production"] }

\* secrets[type]: the type-specific variable, else JWT_SECRET; NoSecret when
\* the lookup throws 'JWT secret not configured'
getSecretByType(e, type) ==
    CASE type = "access"  -> IF e.access # NoSecret THEN e.access ELSE e.shared
      [] type = "refresh" -> IF e.refresh # NoSecret THEN e.refresh ELSE e.shared
      [] type = "reset"   -> IF e.reset # NoSecret THEN e.reset ELSE e.shared
      [] OTHER            -> NoSecret

getExpiryByType(type) ==
    CASE type = "access"  -> ACCESS_TOKEN_EXPIRY
      [] type = "refresh" -> REFRESH_TOKEN_EXPIRY
      [] type = "reset"   -> RESET_TOKEN_EXPIRY
      [] OTHER            -> ACCESS_TOKEN_EXPIRY

\* jwt.sign({...payload, tokenType, iat}, secret, {expiresIn}) at second t.
\* Defined only when the secret resolves (callers test CanSign first).
generateToken(e, payload, type, t) ==
    [kind |-> "jwt",
     userId |-> payload.userId, email |-> payload.email, role |-> payload.role,
     tokenType |-> type, iat |-> t, exp |-> t + getExpiryByType(type),
     sig |-> getSecretByType(e, type)]

\* generateToken returns instead of throwing
CanSign(e, type) == getSecretByType(e, type) # NoSecret

\* jwt.verify that still accepts a token in the second it expires
verifyTokenLate(e, token, type, t) ==
    LET secret == getSecretByType(e, type) IN
    IF secret = NoSecret THEN [err |-> "Error", claims |-> token]
    ELSE IF token.kind # "jwt" THEN [err |-> "JsonWebTokenError", claims |-> token]
    ELSE IF token.sig # secret THEN [err |-> "JsonWebTokenError", claims |-> token]
    ELSE IF t > token.exp THEN [err |-> "TokenExpiredError", claims |-> token]
    ELSE [err |-> "", claims |-> token]

\* jwt.verify(token, secret): structure, then signature, then expiry.
\* err is the thrown error's name, "" when the claims are returned.
verifyToken(e, token, type, t) ==
    LET secret == getSecretByType(e, type) IN
    IF secret = NoSecret THEN [err |-> "Error", claims |-> token]
    ELSE IF token.kind # "jwt" THEN [err |-> "JsonWebTokenError", claims |-> token]
    ELSE IF token.sig # secret THEN [err |-> "JsonWebTokenError", claims |-> token]
    ELSE IF t >= token.exp THEN [err |-> "TokenExpiredError", claims |-> token]
    ELSE [err |-> "", claims |-> token]

SubjectOf(user) == [userId |-> user.id, email |-> user.email, role |-> user.role]

\* generateAuthTokens whose refresh payload is rebuilt with the default role
generateAuthTokensDrift(e, user, t) ==
    [accessToken |-> generateToken(e, SubjectOf(user), "access", t),
     refreshToken |-> generateToken(e, [SubjectOf(user) EXCEPT !.role = "user"], "refresh", t),
     accessTokenExpiry |-> ACCESS_TOKEN_EXPIRY,
     refreshTokenExpiry |-> REFRESH_TOKEN_EXPIRY]

\* generateAuthTokens(user): the same payload signed once per type
generateAuthTokens(e, user, t) ==
    [accessToken |-> generateToken(e, SubjectOf(user), "access", t),
     refreshToken |-> generateToken(e, SubjectOf(user), "refresh", t),
     accessTokenExpiry |-> ACCESS_TOKEN_EXPIRY,
     refreshTokenExpiry |-> REFRESH_TOKEN_EXPIRY]

generateResetToken(e, email, t) ==
    generateToken(e, [userId |-> NoId, email |-> email, role |-> Undefined], "reset", t)

(***************************************************************************)
(* Requests                                                                *)
(***************************************************************************)
\* strings that are not a JWT
GarbageToken == [kind |-> "garbage", userId |-> NoId, email |-> Undefined, role |-> Undefined,
                 tokenType |-> Undefined, iat |-> 0, exp |-> 0, sig |-> NoSecret]
EmptyToken == [GarbageToken EXCEPT !.kind = "empty"]

\* jwt.decode(token): the payload without any verification, null (NoClaims)
\* for a string that is not a JWT
NoClaims == [GarbageToken EXCEPT !.kind = "null"]
decodeToken(token) == IF token.kind = "jwt" THEN token ELSE NoClaims

\* isTokenExpired at second t (exp = 0: the payload has no exp claim)
isTokenExpired(token, t) ==
    LET decoded == decodeToken(token) IN
    IF decoded = NoClaims \/ decoded.exp = 0 THEN TRUE
    ELSE decoded.exp < t

NoUser == [id |-> NoId, email |-> Undefined, role |-> Undefined]

\* the Authorization header: absent, or a scheme followed by the
\* space-separated pieces after it (rest = <<>>: no space follows the scheme)
NoHeader == [scheme |-> "none", rest |-> <<>>]
startsWithBearer(h) == h.scheme = "Bearer" /\ Len(h.rest) >= 1

(***************************************************************************)
(* Authentication middleware (middleware/auth.js)                          *)
(***************************************************************************)
\* the message each 401 of authenticate carries
authMessage(code) ==
    CASE code = "NO_TOKEN" -> "Access denied. No token provided."
      [] code = "INVALID_TOKEN_TYPE" -> "Invalid token type."
      [] code = "TOKEN_EXPIRED" -> "Token has expired. Please refresh your token."
      [] code = "MALFORMED_TOKEN" -> "Invalid token."
      [] OTHER -> "Invalid or expired token."

\* res.status(status).json({success: false, message, code}); next is not called
Reject(status, code) ==
    [status |-> status, code |-> code, message |-> authMessage(code), next |-> FALSE,
     user |-> NoUser]

\* an authenticate whose catch handles the two jsonwebtoken errors only and
\* rethrows any other: neither a response nor next
authenticateRethrow(e, h, t) ==
    IF ~startsWithBearer(h) THEN Reject(401, "NO_TOKEN")
    ELSE LET v == verifyToken(e, h.rest[1], "access", t) IN
         IF v.err = "TokenExpiredError" THEN Reject(401, "TOKEN_EXPIRED")
         ELSE IF v.err = "JsonWebTokenError" THEN Reject(401, "MALFORMED_TOKEN")
         ELSE IF v.err # "" THEN [status |-> 0, code |-> "", message |-> "", next |-> FALSE,
                                  user |-> NoUser]
         ELSE IF v.claims.tokenType # "access" THEN Reject(401, "INVALID_TOKEN_TYPE")
         ELSE [status |-> 0, code |-> "", message |-> "", next |-> TRUE,
               user |-> [id |-> v.claims.userId, email |-> v.claims.email, role |-> v.claims.role]]


\* authenticate without the tokenType cross-check
authenticateNoTypeCheck(e, h, t) ==
    IF ~startsWithBearer(h) THEN Reject(401, "NO_TOKEN")
    ELSE LET v == verifyToken(e, h.rest[1], "access", t) IN
         IF v.err = "TokenExpiredError" THEN Reject(401, "TOKEN_EXPIRED")
         ELSE IF v.err = "JsonWebTokenError" THEN Reject(401, "MALFORMED_TOKEN")
         ELSE IF v.err # "" THEN Reject(401, "INVALID_TOKEN")
         ELSE [status |-> 0, code |-> "", message |-> "", next |-> TRUE,
               user |-> [id |-> v.claims.userId, email |-> v.claims.email, role |-> v.claims.role]]

authenticate(e, h, t) ==
    IF ~startsWithBearer(h) THEN Reject(401, "NO_TOKEN")
    ELSE LET v == verifyToken(e, h.rest[1], "access", t) IN
         IF v.err = "TokenExpiredError" THEN Reject(401, "TOKEN_EXPIRED")
         ELSE IF v.err = "JsonWebTokenError" THEN Reject(401, "MALFORMED_TOKEN")
         ELSE IF v.err # "" THEN Reject(401, "INVALID_TOKEN")
         ELSE IF v.claims.tokenType # "access" THEN Reject(401, "INVALID_TOKEN_TYPE")
         ELSE [status |-> 0, code |-> "", message |-> "", next |-> TRUE,
               user |-> [id |-> v.claims.userId, email |-> v.claims.email, role |-> v.claims.role]]

\* optionalAuth that attaches whatever claims verify
optionalAuthNoTypeCheck(e, h, t) ==
    LET v == IF startsWithBearer(h) THEN verifyToken(e, h.rest[1], "access", t)
             ELSE [err |-> "none", claims |-> GarbageToken]
    IN  [responded |-> FALSE, nextCalls |-> 1,
         user |-> IF v.err = ""
                  THEN [id |-> v.claims.userId, email |-> v.claims.email, role |-> v.claims.role]
                  ELSE NoUser]

\* optionalAuth: whatever the try block throws is swallowed, then next()
optionalAuth(e, h, t) ==
    LET v == IF startsWithBearer(h) THEN verifyToken(e, h.rest[1], "access", t)
             ELSE [err |-> "none", claims |-> GarbageToken]
    IN  [responded |-> FALSE, nextCalls |-> 1,
         user |-> IF v.err = "" /\ v.claims.tokenType = "access"
                  THEN [id |-> v.claims.userId, email |-> v.claims.email, role |-> v.claims.role]
                  ELSE NoUser]

\* authorize that only tests that an identity is attached
authorizeAnyRole(allowedRoles, reqUser) ==
    IF reqUser = NoUser
    THEN [status |-> 401, code |-> "NOT_AUTHENTICATED", next |-> FALSE,
          requiredRoles |-> {}, userRole |-> Undefined]
    ELSE [status |-> 0, code |-> "", next |-> TRUE,
          requiredRoles |-> {}, userRole |-> Undefined]

\* authorize(...allowedRoles) applied to a request whose req.user is reqUser
authorize(allowedRoles, reqUser) ==
    IF reqUser = NoUser
    THEN [status |-> 401, code |-> "NOT_AUTHENTICATED", next |-> FALSE,
          requiredRoles |-> {}, userRole |-> Undefined]
    ELSE IF reqUser.role \notin allowedRoles
    THEN [status |-> 403, code |-> "INSUFFICIENT_PERMISSIONS", next |-> FALSE,
          requiredRoles |-> allowedRoles, userRole |-> reqUser.role]
    ELSE [status |-> 0, code |-> "", next |-> TRUE,
          requiredRoles |-> {}, userRole |-> Undefined]

\* verifyRefreshToken without the tokenType cross-check
verifyRefreshTokenNoTypeCheck(e, bodyToken, t) ==
    IF bodyToken.kind = "empty"
    THEN [status |-> 400, code |-> "NO_REFRESH_TOKEN", next |-> FALSE, data |-> GarbageToken]
    ELSE LET v == verifyToken(e, bodyToken, "refresh", t) IN
         IF v.err = "TokenExpiredError"
         THEN [status |-> 401, code |-> "REFRESH_TOKEN_EXPIRED", next |-> FALSE, data |-> GarbageToken]
         ELSE IF v.err # ""
         THEN [status |-> 401, code |-> "INVALID_REFRESH_TOKEN", next |-> FALSE, data |-> GarbageToken]
         ELSE [status |-> 0, code |-> "", next |-> TRUE, data |-> v.claims]

\* a lookup that falls back to the refreshToken cookie
refreshTokenOfCookie(req) == IF req.body.kind = "empty" THEN req.cookie ELSE req.body
\* const { refreshToken } = req.body
refreshTokenOf(req) == req.body

\* verifyRefreshToken: body.refreshToken is absent (EmptyToken) or a string
verifyRefreshToken(e, bodyToken, t) ==
    IF bodyToken.kind = "empty"
    THEN [status |-> 400, code |-> "NO_REFRESH_TOKEN", next |-> FALSE, data |-> GarbageToken]
    ELSE LET v == verifyToken(e, bodyToken, "refresh", t) IN
         IF v.err = "TokenExpiredError"
         THEN [status |-> 401, code |-> "REFRESH_TOKEN_EXPIRED", next |-> FALSE, data |-> GarbageToken]
         ELSE IF v.err # ""
         THEN [status |-> 401, code |-> "INVALID_REFRESH_TOKEN", next |-> FALSE, data |-> GarbageToken]
         ELSE IF v.claims.tokenType # "refresh"
         THEN [status |-> 401, code |-> "INVALID_REFRESH_TOKEN", next |-> FALSE, data |-> GarbageToken]
         ELSE [status |-> 0, code |-> "", next |-> TRUE, data |-> v.claims]

(***************************************************************************)
(* User model (models/User.js) and the seeded table (database/schema.sql)  *)
(***************************************************************************)
Roles == {"user", "moderator", "admin"}
Salts == {"s1", "s2"}
BcryptPrefix == "$2a$10$"

\* a password value is a sequence of strings: <<p>> is the plaintext p
Plain(p) == <<p>>
\* two accepted passwords of more than 72 bytes that agree on their first 72
Long72A == "Aa1!(72 bytes)A"
Long72B == "Aa1!(72 bytes)B"
\* the bytes of a string bcrypt reads: the key schedule takes the first 72
Truncate72(str) == IF str \in {Long72A, Long72B} THEN "Aa1!(72 bytes)" ELSE str
\* bcrypt.hash(value, salt)
bcryptHash(value, salt) ==
    <<BcryptPrefix, salt>> \o [i \in 1..Len(value) |-> Truncate72(value[i])]
\* bcrypt.compare(candidate, stored): the candidate hashed with the stored salt
bcryptCompare(candidate, stored) ==
    Len(stored) = 3 /\ stored[1] = BcryptPrefix
        /\ stored = bcryptHash(Plain(candidate), stored[2])

\* hashPassword(user): replaces a truthy user.password by its salted hash
hashPassword(user, salt) ==
    IF user.password # <<>> THEN [user EXCEPT !.password = bcryptHash(user.password, salt)]
    ELSE user

comparePassword(user, candidatePassword) == bcryptCompare(candidatePassword, user.password)

\* a profile that copies every attribute the instance carries
getPublicProfileUnfiltered(user) == user

\* getPublicProfile(): every stored value except password
getPublicProfile(user) ==
    [id |-> user.id, username |-> user.username, email |-> user.email,
     displayName |-> user.displayName, role |-> user.role, isActive |-> user.isActive]

\* instance methods the model defines beyond Sequelize's own
UserInstanceMethods == {"comparePassword", "getPublicProfile"}

\* String.prototype.toLowerCase over the addresses requests carry
toLowerCase(s) ==
    CASE s = "A@X.org" -> "a@x.org"
      [] s = "Admin@Telford.com" -> "admin@telford.com"
      [] OTHER -> s

NoRow == [id |-> NoId, username |-> Undefined, email |-> Undefined, password |-> <<>>,
          displayName |-> Undefined, role |-> Undefined, isActive |-> FALSE]
NoProfile == getPublicProfile(NoRow)

findByEmailForAuth(us, email) ==
    {u \in us : u.email = toLowerCase(email) /\ u.isActive}

findByUsernameForAuth(us, username) ==
    {u \in us : u.username = username /\ u.isActive}

findByPk(us, id) == {u \in us : u.id = id}

findOneByEmail(us, email) == {u \in us : u.email = email}

\* the row INSERTed by schema.sql, its password set by fixSchema
AdminRow == [id |-> 1, username |-> "admin", email |-> "admin@telford.com",
             password |-> bcryptHash(Plain("AdminPassword123!"), "s1"),
             displayName |-> "admin", role |-> "admin", isActive |-> TRUE]

\* a member row already in the table when the server starts
MemberRows ==
    { [id |-> 2, username |-> "mod", email |-> "m@x.org",
       password |-> bcryptHash(Plain("Password123!"), "s1"),
       displayName |-> "mod", role |-> "moderator", isActive |-> a] : a \in {FALSE} }

SeedTables == {{AdminRow}} \cup {{AdminRow, m} : m \in MemberRows}

(***************************************************************************)
(* Request inputs                                                          *)
(***************************************************************************)
Usernames == {"alice", "mod"}
Emails == {"a@x.org", "A@X.org", "m@x.org", "nobody@x.org"}
\* addresses register is asked for
RegisterEmails == {"a@x.org", "A@X.org", "m@x.org"}
\* passwords the validation rules accept, as chosen at registration and at reset
RegisterPasswords == {"Password123!"}
ResetPasswords == {"NewPass456!"}
\* passwords login is tried with
Passwords == RegisterPasswords \cup ResetPasswords \cup {"password123!"}

\* seconds at which the clock is observed
Instants == {0, 899, 900, 901, 3599, 3600, 604799, 604800, MaxNow}
IssueTimes == {0}

\* role lists routes pass to authorize
AllowedRoleSets == {{"admin"}, {"admin", "moderator"}, {"user"}, {}}

GhostSubject == [userId |-> 9, email |-> "gone@x.org", role |-> "user"]

Subjects(us) == {SubjectOf(u) : u \in us} \cup {GhostSubject}

\* tokens the server's own codec produced up to second t
MintedTokens(e, us, t) ==
    {generateToken(e, p, ty, i) :
        p \in Subjects(us), ty \in {x \in {"access", "refresh"} : CanSign(e, x)},
        i \in {j \in IssueTimes : j <= t}}
    \cup
    (IF CanSign(e, "reset")
     THEN {generateResetToken(e, p.email, i) :
            p \in Subjects(us), i \in {j \in IssueTimes : j <= t}}
     ELSE {})

\* tokens signed by somebody who does not hold the server's secrets
ForgedTokens(us) ==
    {[kind |-> "jwt", userId |-> p.userId, email |-> p.email, role |-> "admin",
      tokenType |-> ty, iat |-> 0, exp |-> MaxNow + 1, sig |-> "attacker"] :
        p \in Subjects(us), ty \in {"access", "reset"}}

ClientTokens(e, us, t) == MintedTokens(e, us, t) \cup ForgedTokens(us) \cup {GarbageToken}

\* the refreshToken cookie a request carries: none, or a minted refresh token
RefreshCookies(e, us, t) ==
    {EmptyToken} \cup
    {m \in MintedTokens(e, us, t) : m.tokenType = "refresh" /\ m.userId = 1}

Headers(e, us, t) ==
    {NoHeader, [scheme |-> "Bearer", rest |-> <<>>], [scheme |-> "Bearer", rest |-> <<EmptyToken>>]}
    \cup {[scheme |-> s, rest |-> <<tok>>] :
            s \in {"Bearer"}, tok \in ClientTokens(e, us, t)}
    \cup {[scheme |-> "Basic", rest |-> <<tok>>] : tok \in MintedTokens(e, us, t)}
    \* 'Bearer <token> <more>': split(' ')[1] is still the token
    \cup {[scheme |-> "Bearer", rest |-> <<tok, GarbageToken>>] :
            tok \in {m \in MintedTokens(e, us, t) : m.tokenType = "access"}}

(***************************************************************************)
(* Authentication controller (controllers/authController.js)               *)
(***************************************************************************)
\* names the controller binds from '../config/jwt'
ControllerImports == {"generateAuthTokens", "generateResetToken", "verifyToken", "JWT_CONFIG"}

\* a controller response: code is "" on success; accessToken, cookie and
\* debugToken are EmptyToken when the response carries none
Respond(status, code) ==
    [status |-> status, code |-> code, user |-> NoProfile,
     accessToken |-> EmptyToken, cookie |-> EmptyToken, debugToken |-> EmptyToken]

\* rows findOne({email or username}) may return
registerMatches(us, body) ==
    {u \in us : u.email = toLowerCase(body.email) \/ u.username = body.username}

\* register: existing is the row findOne returned (NoRow: none); the result
\* is the response and the table afterwards
register(e, us, id, body, salt, t, existing) ==
    IF existing # NoRow
    THEN [resp |-> Respond(400, IF existing.email = toLowerCase(body.email)
                                THEN "EMAIL_EXISTS" ELSE "USERNAME_EXISTS"),
          users |-> us]
    ELSE LET user == hashPassword([id |-> id, username |-> body.username,
                                   email |-> toLowerCase(body.email),
                                   password |-> Plain(body.password),
                                   \* displayName || username, no displayName sent
                                   displayName |-> body.username,
                                   role |-> "user", isActive |-> TRUE], salt)
             created == us \cup {user}
         IN  IF ~CanSign(e, "access") \/ ~CanSign(e, "refresh")
             THEN [resp |-> Respond(500, "REGISTRATION_ERROR"), users |-> created]
             ELSE IF "updateLastLogin" \notin UserInstanceMethods
             THEN [resp |-> Respond(500, "REGISTRATION_ERROR"), users |-> created]
             ELSE LET tokens == generateAuthTokens(e, user, t) IN
                  [resp |-> [Respond(201, "") EXCEPT !.user = getPublicProfile(user),
                                                     !.accessToken = tokens.accessToken,
                                                     !.cookie = tokens.refreshToken],
                   users |-> created]

\* login: body.email / body.username are Undefined when not sent
\* the unique indexes on username and email: the INSERT of a row with either
\* value taken fails with SequelizeUniqueConstraintError
uniqueViolation(us, body) ==
    \E u \in us : u.email = toLowerCase(body.email) \/ u.username = body.username

\* register from User.create on, for a request whose findOne found no row
\* when it ran: a failed INSERT is caught like any other error
registerCreate(e, us, id, body, salt, t) ==
    IF uniqueViolation(us, body)
    THEN [resp |-> Respond(500, "REGISTRATION_ERROR"), users |-> us]
    ELSE register(e, us, id, body, salt, t, NoRow)

login(e, us, body, t) ==
    LET found == IF body.email # Undefined THEN findByEmailForAuth(us, body.email)
                 ELSE IF body.username # Undefined THEN findByUsernameForAuth(us, body.username)
                 ELSE {}
    IN  IF found = {} THEN Respond(401, "INVALID_CREDENTIALS")
        ELSE LET user == CHOOSE u \in found : TRUE IN
             IF ~user.isActive THEN Respond(403, "ACCOUNT_DEACTIVATED")
             ELSE IF ~comparePassword(user, body.password) THEN Respond(401, "INVALID_CREDENTIALS")
             ELSE IF ~CanSign(e, "access") \/ ~CanSign(e, "refresh") THEN Respond(500, "LOGIN_ERROR")
             ELSE IF "updateLastLogin" \notin UserInstanceMethods THEN Respond(500, "LOGIN_ERROR")
             ELSE LET tokens == generateAuthTokens(e, user, t) IN
                  [Respond(200, "") EXCEPT !.user = getPublicProfile(user),
                                           !.accessToken = tokens.accessToken,
                                           !.cookie = tokens.refreshToken]

\* refreshToken controller, reached after verifyRefreshToken called next
refreshToken(e, us, bodyToken, t) ==
    IF bodyToken.kind = "empty" THEN Respond(400, "NO_REFRESH_TOKEN")
    ELSE LET v == verifyToken(e, bodyToken, "refresh", t) IN
         IF v.err = "TokenExpiredError" THEN Respond(401, "REFRESH_TOKEN_EXPIRED")
         ELSE IF v.err # "" THEN Respond(401, "INVALID_REFRESH_TOKEN")
         ELSE LET found == findByPk(us, v.claims.userId) IN
              IF found = {} THEN Respond(401, "INVALID_REFRESH_TOKEN")
              ELSE LET user == CHOOSE u \in found : TRUE IN
                   IF ~user.isActive THEN Respond(401, "INVALID_REFRESH_TOKEN")
                   \* generateToken is not bound in the controller: ReferenceError, caught
                   ELSE IF "generateToken" \notin ControllerImports
                   THEN Respond(401, "INVALID_REFRESH_TOKEN")
                   ELSE IF ~CanSign(e, "access") THEN Respond(401, "INVALID_REFRESH_TOKEN")
                   ELSE [Respond(200, "") EXCEPT
                            !.accessToken = generateToken(e, SubjectOf(user), "access", t)]

\* POST /refresh-token: verifyRefreshToken, then the controller
refreshTokenRoute(e, us, bodyToken, t) ==
    LET m == verifyRefreshToken(e, bodyToken, t) IN
    IF ~m.next THEN Respond(m.status, m.code)
    ELSE refreshToken(e, us, bodyToken, t)

\* forgotPassword: the response for one e-mail address
forgotPassword(e, us, email, t) ==
    LET found == findOneByEmail(us, toLowerCase(email)) IN
    IF found = {} THEN Respond(200, "")
    ELSE LET user == CHOOSE u \in found : TRUE IN
         IF ~user.isActive THEN Respond(403, "ACCOUNT_DEACTIVATED")
         ELSE IF ~CanSign(e, "reset") THEN Respond(500, "PASSWORD_RESET_ERROR")
         ELSE IF e.nodeEnv = "development"
         THEN [Respond(200, "") EXCEPT !.debugToken = generateResetToken(e, user.email, t)]
         ELSE Respond(200, "")

\* resetPassword: the response and the table afterwards
resetPassword(e, us, token, password, salt, t) ==
    LET v == verifyToken(e, token, "reset", t) IN
    IF v.err = "TokenExpiredError"
    THEN [resp |-> Respond(400, "RESET_TOKEN_EXPIRED"), users |-> us]
    ELSE IF v.err # "" THEN [resp |-> Respond(400, "INVALID_RESET_TOKEN"), users |-> us]
    \* decoded.email.toLowerCase() on a missing claim: TypeError, caught
    ELSE IF v.claims.email = Undefined
    THEN [resp |-> Respond(400, "INVALID_RESET_TOKEN"), users |-> us]
    ELSE LET found == findOneByEmail(us, toLowerCase(v.claims.email)) IN
         IF found = {} THEN [resp |-> Respond(400, "INVALID_RESET_TOKEN"), users |-> us]
         ELSE LET user == CHOOSE u \in found : TRUE IN
              IF ~user.isActive THEN [resp |-> Respond(403, "ACCOUNT_DEACTIVATED"), users |-> us]
              ELSE [resp |-> Respond(200, ""),
                    users |-> (us \ {user}) \cup
                              {hashPassword([user EXCEPT !.password = Plain(password)], salt)}]

\* a logout that also deactivates the caller's account
logoutDeactivating(us, reqUser) ==
    [resp |-> Respond(200, ""),
     users |-> {IF u.id = reqUser.id THEN [u EXCEPT !.isActive = FALSE] ELSE u : u \in us}]

\* logout: clears the refreshToken cookie on the client and answers 200;
\* no token is recorded anywhere
logout(us, reqUser) == [resp |-> Respond(200, ""), users |-> us]

\* POST /logout: authenticate, logout
logoutRoute(e, us, h, t) ==
    LET a == authenticate(e, h, t) IN
    IF ~a.next THEN [resp |-> Respond(a.status, a.code), users |-> us]
    ELSE logout(us, a.user)

\* the attributes an instance loaded under the default scope carries: every
\* one but password
defaultScope(row) == [row EXCEPT !.password = <<>>]
\* User.scope('withPassword'): the password is loaded too
withPassword(row) == row

\* getProfile behind authenticate: findByPk under the default scope, then
\* the public profile
getProfile(us, reqUser) ==
    LET found == findByPk(us, reqUser.id) IN
    IF found = {} THEN Respond(404, "USER_NOT_FOUND")
    ELSE [Respond(200, "") EXCEPT
            !.user = getPublicProfile(defaultScope(CHOOSE u \in found : TRUE))]

\* GET /me: authenticate, getProfile
getProfileRoute(e, us, h, t) ==
    LET a == authenticate(e, h, t) IN
    IF ~a.next THEN Respond(a.status, a.code) ELSE getProfile(us, a.user)

\* beforeUpdate that hashes whatever the instance carries, and once more
beforeUpdateTwice(user, changed, salt) ==
    IF "password" \in changed THEN hashPassword(hashPassword(user, salt), salt) ELSE user

\* the beforeUpdate hook: hashes only when changed('password')
beforeUpdate(user, changed, salt) ==
    IF "password" \in changed THEN hashPassword(user, salt) ELSE user

\* instance.set(values): the attributes whose value differs from the loaded one
changedBy(inst, values) == {f \in DOMAIN values : values[f] # inst[f]}

\* instance.save() after set(values): the hook, then UPDATE of the columns
\* that were set or that the hook changed; the table afterwards
save(us, row, inst, values, salt) ==
    LET changed == changedBy(inst, values)
        assigned == [f \in DOMAIN inst |-> IF f \in changed THEN values[f] ELSE inst[f]]
        hooked == IF changed = {} THEN assigned ELSE beforeUpdate(assigned, changed, salt)
        cols == changed \cup {f \in DOMAIN inst : hooked[f] # assigned[f]}
        written == [f \in DOMAIN row |-> IF f \in cols THEN hooked[f] ELSE row[f]]
    IN  (us \ {row}) \cup {written}

\* updateProfile behind authenticate: reqUser is req.user, body.displayName
\* is Undefined when not sent
updateProfile(us, reqUser, body, salt) ==
    LET found == findByPk(us, reqUser.id) IN
    IF found = {} THEN [resp |-> Respond(404, "USER_NOT_FOUND"), users |-> us]
    ELSE LET row == CHOOSE u \in found : TRUE
             updates == IF body.displayName # Undefined
                        THEN [displayName |-> body.displayName]
                        ELSE [f \in {} |-> Undefined]
             after == save(us, row, defaultScope(row), updates, salt)
         IN  [resp |-> [Respond(200, "") EXCEPT
                          !.user = getPublicProfile(CHOOSE u \in after : u.id = row.id)],
              users |-> after]

\* changePassword behind authenticate: newPassword is the value assigned to
\* user.password
changePassword(us, reqUser, currentPassword, newPassword, salt) ==
    LET found == findByPk(us, reqUser.id) IN
    IF found = {} THEN [resp |-> Respond(404, "USER_NOT_FOUND"), users |-> us]
    ELSE LET row == CHOOSE u \in found : TRUE IN
         IF ~comparePassword(withPassword(row), currentPassword)
         THEN [resp |-> Respond(401, "INCORRECT_PASSWORD"), users |-> us]
         ELSE [resp |-> Respond(200, ""),
               users |-> save(us, row, withPassword(row), [password |-> newPassword], salt)]

\* validate after the rules of a route: 400 VALIDATION_ERROR unless they pass
validate(passes) ==
    IF passes THEN [status |-> 200, code |-> "", next |-> TRUE]
    ELSE [status |-> 400, code |-> "VALIDATION_ERROR", next |-> FALSE]

\* PUT /me: authenticate, updateProfileValidation, updateProfile
updateProfileRoute(e, us, h, body, salt, t) ==
    LET a == authenticate(e, h, t) IN
    IF ~a.next THEN [resp |-> Respond(a.status, a.code), users |-> us]
    ELSE updateProfile(us, a.user, body, salt)

\* POST /change-password: authenticate, changePasswordValidation (the new
\* password differs from the current one), changePassword
changePasswordRoute(e, us, h, currentPassword, newPassword, salt, t) ==
    LET a == authenticate(e, h, t)
        v == validate(newPassword # Plain(currentPassword))
    IN  IF ~a.next THEN [resp |-> Respond(a.status, a.code), users |-> us]
        ELSE IF ~v.next THEN [resp |-> Respond(v.status, v.code), users |-> us]
        ELSE changePassword(us, a.user, currentPassword, newPassword, salt)

\* a protected route that also looks the caller up and turns away tokens
\* whose user is gone, deactivated or holds another role
protectedRouteChecksUser(e, us, h, t) ==
    LET a == authenticate(e, h, t) IN
    IF a.next /\ ~\E u \in us : u.id = a.user.id /\ u.isActive /\ u.role = a.user.role
    THEN Reject(401, "INVALID_TOKEN")
    ELSE a

\* GET /api/protected: authenticate, then a handler that echoes req.user;
\* the table is not consulted
protectedRoute(e, us, h, t) == authenticate(e, h, t)

\* GET /admin/users: authenticate, authorize('admin'), then the handler
adminUsersRoute(e, us, h, t) ==
    LET a == authenticate(e, h, t) IN
    IF ~a.next
    THEN [status |-> a.status, code |-> a.code, handler |-> FALSE, user |-> a.user,
          requiredRoles |-> {}, userRole |-> Undefined]
    ELSE LET z == authorize({"admin"}, a.user) IN
         IF ~z.next
         THEN [status |-> z.status, code |-> z.code, handler |-> FALSE, user |-> a.user,
               requiredRoles |-> z.requiredRoles, userRole |-> z.userRole]
         ELSE [status |-> 200, code |-> "", handler |-> TRUE, user |-> a.user,
               requiredRoles |-> {}, userRole |-> Undefined]

(***************************************************************************)
(* Rate limiting (middleware/rateLimit.js over express-rate-limit)         *)
(***************************************************************************)
\* the options each limiter is created with; windowMs is kept in seconds.
\* No option object names skip or keyGenerator.
RATE_LIMIT_CONFIG ==
    [general |-> [windowMs |-> 900, max |-> 100, code |-> "RATE_LIMIT_EXCEEDED",
                  skipSuccessfulRequests |-> FALSE, skip |-> FALSE, keyGenerator |-> "ip"],
     auth |-> [windowMs |-> 900, max |-> 5, code |-> "LOGIN_RATE_LIMIT_EXCEEDED",
               skipSuccessfulRequests |-> TRUE, skip |-> FALSE, keyGenerator |-> "ip"],
     passwordReset |-> [windowMs |-> 3600, max |-> 3, code |-> "PASSWORD_RESET_LIMIT_EXCEEDED",
                        skipSuccessfulRequests |-> FALSE, skip |-> FALSE, keyGenerator |-> "ip"]]

\* userRateLimiter(maxRequests, windowMs): the options of the limiter it builds
userRateLimiter(maxRequests, windowMs) ==
    [windowMs |-> windowMs, max |-> maxRequests, code |-> "USER_RATE_LIMIT_EXCEEDED",
     skipSuccessfulRequests |-> FALSE, skip |-> FALSE, keyGenerator |-> "user"]

\* skipRateLimit(req)
skipRateLimit(req) ==
    \/ req.user # NoUser /\ req.user.role = "admin"
    \/ req.path \in {"/api/health", "/api/docs"}

\* the key a limiter counts a request under: the keyGenerator of
\* userRateLimiter, else the library's default, req.ip
keyOf(cfg, req) ==
    IF cfg.keyGenerator = "user" /\ req.user # NoUser
    THEN "user:" \o ToString(req.user.id)
    ELSE req.ip

\* the limiter the router puts in front of a path ("none": no limiter)
limiterOf(path) ==
    CASE path \in {"/api/auth/register", "/api/auth/login"} -> "auth"
      [] path = "/api/auth/forgot-password" -> "passwordReset"
      [] OTHER -> "none"

\* the limiters are the first middleware of their routes: authenticate has
\* not run, so req.user is not set whatever Authorization header was sent
reqAtLimiter(r) == [ip |-> r.ip, path |-> r.path, user |-> NoUser]

\* a key's record in a limiter's memory store; resetAt 0: no record
NoHits == [count |-> 0, resetAt |-> 0]

\* an increment that is lost when the key already has a record
incrementLossy(entry, cfg, t) ==
    IF entry.resetAt = 0 \/ entry.resetAt <= t
    THEN [count |-> 1, resetAt |-> t + cfg.windowMs]
    ELSE entry

\* store.increment(key) at second t
increment(entry, cfg, t) ==
    IF entry.resetAt = 0 \/ entry.resetAt <= t
    THEN [count |-> 1, resetAt |-> t + cfg.windowMs]
    ELSE [entry EXCEPT !.count = @ + 1]

\* store.decrement(key)
decrement(entry) == IF entry.count > 0 THEN [entry EXCEPT !.count = @ - 1] ELSE entry

\* a limiter that already answers 429 to the request that reaches max
limitOffByOne(cfg, entry, req, t) ==
    LET e == increment(entry, cfg, t) IN
    IF e.count >= cfg.max
    THEN [entry |-> e, counted |-> TRUE, blocked |-> TRUE, status |-> 429, code |-> cfg.code]
    ELSE [entry |-> e, counted |-> TRUE, blocked |-> FALSE, status |-> 0, code |-> ""]

\* the limiter middleware on an arriving request: the key's record
\* afterwards and whether the request is answered 429 instead of passed on
limit(cfg, entry, req, t) ==
    IF cfg.skip /\ skipRateLimit(req)
    THEN [entry |-> entry, counted |-> FALSE, blocked |-> FALSE, status |-> 0, code |-> ""]
    ELSE LET e == increment(entry, cfg, t) IN
         IF e.count > cfg.max
         THEN [entry |-> e, counted |-> TRUE, blocked |-> TRUE, status |-> 429, code |-> cfg.code]
         ELSE [entry |-> e, counted |-> TRUE, blocked |-> FALSE, status |-> 0, code |-> ""]

\* a limiter that keeps every hit, whatever the response
finishKeepAll(cfg, entry, status) == entry

\* the response of a counted request is finished with this status:
\* skipSuccessfulRequests takes the hit back when status < 400
finish(cfg, entry, status) ==
    IF cfg.skipSuccessfulRequests /\ status < 400 THEN decrement(entry) ELSE entry

\* the limiters some route is mounted behind, and the addresses seen
MountedLimiters == {"auth", "passwordReset"}
Ips == {"10.0.0.1", "10.0.0.2"}

\* no request has been counted, none is being served
NoTraffic ==
    [store |-> [l \in MountedLimiters |-> [k \in Ips |-> NoHits]],
     pending |-> [l \in MountedLimiters |-> [k \in Ips |-> 0]],
     kept |-> [l \in MountedLimiters |-> [k \in Ips |-> 0]],
     blocked |-> [l \in MountedLimiters |-> [k \in Ips |-> 0]],
     lifted |-> {}]

RECURSIVE SumOver(_, _)
SumOver(f, D) ==
    IF D = {} THEN 0 ELSE LET d == CHOOSE x \in D : TRUE IN f[d] + SumOver(f, D \ {d})

TotalHits(l) ==
    SumOver([p \in MountedLimiters \X Ips |-> l.store[p[1]][p[2]].count], MountedLimiters \X Ips)
TotalPending(l) ==
    SumOver([p \in MountedLimiters \X Ips |-> l.pending[p[1]][p[2]]], MountedLimiters \X Ips)

(***************************************************************************)
(* The server as a state machine                                           *)
(***************************************************************************)
\* no request is being served
Idle == [op |-> "none"]

\* startServer: loads the models and listens; process.exit(1) only when the
\* database fails to initialize (taken to succeed). No secret is looked up
startServer(e) == "listening"

Init ==
    /\ env \in {e \in EnvConfigs : startServer(e) = "listening"}
    /\ users \in SeedTables
    /\ nextId = 3
    /\ now = 0
    /\ lim = NoTraffic
    /\ inflight = {}
    /\ last = Idle

\* time passes between requests
Tick ==
    /\ last = Idle
    /\ \E t \in Instants : t > now /\ now' = t
    /\ UNCHANGED <<inflight, lim, env, users, nextId, last>>

\* the response has been sent; the server takes the next request
EndRequest ==
    /\ last # Idle
    /\ last' = Idle
    /\ UNCHANGED <<inflight, lim, env, users, nextId, now>>

\* GET /api/protected, GET /api/auth/test: authenticate, then the handler
AuthenticateReq ==
    /\ last = Idle
    /\ \E h \in Headers(env, users, now) :
         last' = [op |-> "authenticate", header |-> h, at |-> now,
                  res |-> authenticate(env, h, now)]
    /\ UNCHANGED <<inflight, lim, env, users, nextId, now>>

\* the optionalAuth middleware on a request
OptionalAuthReq ==
    /\ last = Idle
    /\ \E h \in Headers(env, users, now) :
         last' = [op |-> "optionalAuth", header |-> h, at |-> now,
                  res |-> optionalAuth(env, h, now)]
    /\ UNCHANGED <<inflight, lim, env, users, nextId, now>>

\* the authorize middleware on a request that does or does not carry req.user
AuthorizeReq ==
    /\ last = Idle
    /\ \E allowed \in AllowedRoleSets, ru \in {NoUser} \cup
            {[id |-> p.userId, email |-> p.email, role |-> p.role] : p \in Subjects(users)} :
         last' = [op |-> "authorize", allowedRoles |-> allowed, reqUser |-> ru,
                  res |-> authorize(allowed, ru)]
    /\ UNCHANGED <<inflight, lim, env, users, nextId, now>>

AdminUsersReq ==
    /\ last = Idle
    /\ \E h \in Headers(env, users, now) :
         last' = [op |-> "adminUsers", header |-> h, at |-> now,
                  res |-> adminUsersRoute(env, users, h, now)]
    /\ UNCHANGED <<inflight, lim, env, users, nextId, now>>

\* generateAuthTokens(user) for a stored user, and the access token verified
GenerateAuthTokensCall ==
    /\ last = Idle
    /\ CanSign(env, "access") /\ CanSign(env, "refresh")
    /\ \E u \in users :
         LET tokens == generateAuthTokens(env, u, now) IN
         last' = [op |-> "generateAuthTokens", user |-> u, at |-> now, tokens |-> tokens,
                  verified |-> verifyToken(env, tokens.accessToken, "access", now)]
    /\ UNCHANGED <<inflight, lim, env, users, nextId, now>>

\* a well-formed token whose payload carries no exp claim
NoExpToken == [kind |-> "jwt", userId |-> 1, email |-> "admin@telford.com", role |-> "admin",
               tokenType |-> "access", iat |-> 0, exp |-> 0, sig |-> "attacker"]

\* isTokenExpired(token) on a token a client holds, beside what verifyToken
\* makes of the same token at the same second
IsTokenExpiredCall ==
    /\ last = Idle
    /\ \E tok \in ClientTokens(env, users, now) \cup {NoExpToken} :
         last' = [op |-> "isTokenExpired", token |-> tok, at |-> now,
                  res |-> isTokenExpired(tok, now),
                  verify |-> verifyToken(env, tok, IF tok.tokenType \in TOKEN_TYPES
                                                   THEN tok.tokenType ELSE "access", now).err]
    /\ UNCHANGED <<inflight, lim, env, users, nextId, now>>

\* the register handler on a request its route's limiter and validation let
\* through (the limiters are exercised on their own by Arrive and Finish)
RegisterReq ==
    \E username \in Usernames, email \in RegisterEmails, password \in RegisterPasswords, salt \in Salts :
      LET body == [username |-> username, email |-> email, password |-> password]
          matches == registerMatches(users, body)
      IN  \E existing \in (IF matches = {} THEN {NoRow} ELSE matches) :
            LET r == register(env, users, nextId, body, salt, now, existing) IN
            /\ last = Idle
            /\ (existing = NoRow => Cardinality(users) < MaxUsers)
            /\ users' = r.users
            /\ nextId' = IF r.users = users THEN nextId ELSE nextId + 1
            /\ last' = [op |-> "register", body |-> body, at |-> now, before |-> users,
                        res |-> r.resp]
            /\ UNCHANGED <<inflight, lim, env, now>>

\* register up to its await of findOne: a request that finds a row is
\* answered at once, any other waits for its INSERT while further requests
\* are taken
RegisterCheck ==
    \E username \in Usernames, email \in RegisterEmails, password \in RegisterPasswords :
      LET body == [username |-> username, email |-> email, password |-> password]
          matches == registerMatches(users, body)
      IN  \E existing \in (IF matches = {} THEN {NoRow} ELSE matches) :
           \E rid \in 1..MaxInflight :
            /\ \A r \in inflight : r.rid # rid
            /\ IF existing # NoRow
               THEN /\ inflight' = inflight
                    /\ last' = [op |-> "registerCheck", rid |-> rid, body |-> body,
                                before |-> users, created |-> FALSE,
                                res |-> register(env, users, nextId, body, "s1", now, existing).resp]
               ELSE /\ inflight' = inflight \cup {[rid |-> rid, body |-> body]}
                    /\ last' = [op |-> "registerCheck", rid |-> rid, body |-> body,
                                before |-> users, created |-> FALSE, res |-> Respond(0, "")]
            /\ UNCHANGED <<lim, env, users, nextId, now>>

\* register from its await of User.create to the response
RegisterCreate ==
    \E r \in inflight, salt \in Salts :
      LET out == registerCreate(env, users, nextId, r.body, salt, now) IN
      /\ (~uniqueViolation(users, r.body) => Cardinality(users) < MaxUsers)
      /\ users' = out.users
      /\ nextId' = IF out.users = users THEN nextId ELSE nextId + 1
      /\ inflight' = inflight \ {r}
      /\ last' = [op |-> "registerCreate", rid |-> r.rid, body |-> r.body, before |-> users,
                  created |-> out.users # users, res |-> out.resp]
      /\ UNCHANGED <<lim, env, now>>

\* the login handler behind its route's limiter and validation
LoginReq ==
    /\ last = Idle
    /\ \E email \in Emails \cup {"admin@telford.com", Undefined},
          username \in Usernames \cup {Undefined},
          password \in Passwords :
         /\ (email = Undefined) # (username = Undefined)
         /\ LET body == [email |-> email, username |-> username, password |-> password] IN
            last' = [op |-> "login", body |-> body, at |-> now,
                     res |-> login(env, users, body, now)]
    /\ UNCHANGED <<inflight, lim, env, users, nextId, now>>

RefreshTokenReq ==
    /\ last = Idle
    /\ \E tok \in ClientTokens(env, users, now) \cup {EmptyToken},
          cookie \in RefreshCookies(env, users, now) :
         LET rt == refreshTokenOf([body |-> tok, cookie |-> cookie]) IN
         last' = [op |-> "refreshToken", token |-> tok, cookie |-> cookie, at |-> now,
                  mw |-> verifyRefreshToken(env, rt, now),
                  res |-> refreshTokenRoute(env, users, rt, now)]
    /\ UNCHANGED <<inflight, lim, env, users, nextId, now>>

\* the forgotPassword handler behind its route's limiter and validation
ForgotPasswordReq ==
    /\ last = Idle
    /\ \E email \in Emails :
         last' = [op |-> "forgotPassword", email |-> email, at |-> now,
                  res |-> forgotPassword(env, users, email, now)]
    /\ UNCHANGED <<inflight, lim, env, users, nextId, now>>

ResetPasswordReq ==
    \E tok \in ClientTokens(env, users, now), password \in ResetPasswords, salt \in Salts :
      LET r == resetPassword(env, users, tok, password, salt, now) IN
      /\ last = Idle
      /\ users' = r.users
      /\ last' = [op |-> "resetPassword", token |-> tok, password |-> password, at |-> now,
                  before |-> users, res |-> r.resp]
      /\ UNCHANGED <<inflight, lim, env, nextId, now>>

\* headers of the account routes' callers: none, or an access token
AccountHeaders(e, us, t) ==
    {NoHeader} \cup
    {[scheme |-> "Bearer", rest |-> <<tok>>] :
        tok \in {m \in MintedTokens(e, us, t) : m.tokenType = "access"}}

\* POST /reset-password once more with the token of the reset that has just
\* succeeded
ResetPasswordAgainReq ==
    \E password \in ResetPasswords, salt \in Salts :
      LET r == resetPassword(env, users, last.token, password, salt, now) IN
      /\ last.op = "resetPassword" /\ last.res.status = 200
      /\ users' = r.users
      /\ last' = [op |-> "resetPasswordAgain", token |-> last.token, password |-> password,
                  at |-> now, before |-> users, res |-> r.resp]
      /\ UNCHANGED <<inflight, lim, env, nextId, now>>

\* POST /logout by a client that holds the refresh token rt it may present to
\* POST /refresh-token before and after; accepted: what verifyRefreshToken
\* made of rt when logout began, later: the instants from now on at which the
\* server left behind by logout accepts rt
LogoutReq ==
    \E h \in AccountHeaders(env, users, now), rt \in RefreshCookies(env, users, now) :
      LET r == logoutRoute(env, users, h, now) IN
      /\ last = Idle
      /\ users' = r.users
      /\ UNCHANGED <<inflight, lim, env, nextId, now>>
      /\ last' = [op |-> "logout", header |-> h, refresh |-> rt, at |-> now,
                  before |-> users, res |-> r.resp,
                  accepted |-> verifyRefreshToken(env, refreshTokenOf([body |-> rt, cookie |-> rt]), now).next,
                  later |-> {t \in Instants : t >= now /\
                               verifyRefreshToken(env', refreshTokenOf([body |-> rt, cookie |-> rt]), t).next}]

GetProfileReq ==
    /\ last = Idle
    /\ \E h \in AccountHeaders(env, users, now) :
         last' = [op |-> "me", header |-> h, at |-> now,
                  res |-> getProfileRoute(env, users, h, now)]
    /\ UNCHANGED <<inflight, lim, env, users, nextId, now>>

DisplayNames == {"Al", Undefined}
\* current passwords change-password is tried with
CurrentPasswords == {"AdminPassword123!", "Password123!", "NewPass456!", Long72A}
\* values sent as the new password: accepted plaintexts, or the text of the
\* caller's stored hash
NewPasswords(us, h) ==
    {Plain(p) : p \in {"NewPass456!", Long72A, Long72B}} \cup
    {u.password : u \in {x \in us : Len(h.rest) >= 1 /\ x.id = h.rest[1].userId}}

UpdateProfileReq ==
    \E h \in AccountHeaders(env, users, now), dn \in DisplayNames, salt \in Salts :
      LET body == [displayName |-> dn]
          r == updateProfileRoute(env, users, h, body, salt, now)
      IN  /\ last = Idle
          /\ users' = r.users
          /\ last' = [op |-> "updateProfile", header |-> h, body |-> body, at |-> now,
                      before |-> users, res |-> r.resp]
          /\ UNCHANGED <<inflight, lim, env, nextId, now>>

ChangePasswordReq ==
    \E h \in AccountHeaders(env, users, now), cur \in CurrentPasswords, salt \in Salts :
     \E new \in NewPasswords(users, h) :
      LET r == changePasswordRoute(env, users, h, cur, new, salt, now) IN
      /\ last = Idle
      /\ users' = r.users
      /\ last' = [op |-> "changePassword", header |-> h, currentPassword |-> cur,
                  newPassword |-> new, at |-> now, before |-> users, res |-> r.resp]
      /\ UNCHANGED <<inflight, lim, env, nextId, now>>

\* access tokens issued at second 0 to the users of the seeded table
IssuedHeaders(e) ==
    {[scheme |-> "Bearer", rest |-> <<generateToken(e, SubjectOf(u), "access", 0)>>] :
        u \in {x \in {AdminRow} \cup MemberRows : CanSign(e, "access")}}

\* GET /api/protected with a token issued earlier, whatever became of its user
ProtectedReq ==
    /\ last = Idle
    /\ \E h \in IssuedHeaders(env) :
         last' = [op |-> "protected", header |-> h, at |-> now,
                  res |-> protectedRoute(env, users, h, now)]
    /\ UNCHANGED <<inflight, lim, env, users, nextId, now>>

\* rows change outside the handlers too: an administrator deactivates or
\* deletes an account or gives it another role in the database
DbEdits == {"deactivate", "delete", "demote"}

DbEdit ==
    /\ last = Idle
    /\ \E u \in users, edit \in DbEdits :
         /\ users' = CASE edit = "deactivate" -> (users \ {u}) \cup {[u EXCEPT !.isActive = FALSE]}
                       [] edit = "delete" -> users \ {u}
                       [] edit = "demote" -> (users \ {u}) \cup {[u EXCEPT !.role = "user"]}
         /\ users' # users
    /\ UNCHANGED <<inflight, lim, env, nextId, now, last>>

\* requests as they reach the router: the address, the path and the identity
\* of the access token sent along (NoUser: none)
Callers ==
    {NoUser, [id |-> 1, email |-> "admin@telford.com", role |-> "admin"],
     [id |-> 2, email |-> "m@x.org", role |-> "moderator"]}
Paths == {"/api/auth/login", "/api/auth/register", "/api/auth/forgot-password", "/api/health"}
Requests ==
    {[ip |-> "10.0.0.1", path |-> p, bearer |-> c] :
        p \in {"/api/auth/login"}, c \in Callers}
    \cup {[ip |-> "10.0.0.2", path |-> "/api/auth/login", bearer |-> c] :
        c \in {x \in Callers : x # NoUser /\ x.id = 2}}
    \cup {[ip |-> "10.0.0.1", path |-> p, bearer |-> NoUser] : p \in Paths \ {"/api/auth/login"}}
LimitInstants == {0, 900, 3600}
\* statuses the handler behind a limiter answers with
HandlerStatuses == {200, 401}

\* a request arrives at its route's limiter, which counts it and answers 429
\* or passes it on to validation and the handler
Arrive ==
    \E r \in Requests :
      LET l == limiterOf(r.path) IN
          IF l = "none"
          THEN /\ last' = [op |-> "limit", req |-> r, limiter |-> l, key |-> r.ip, at |-> now,
                           before |-> [count |-> 0, pending |-> 0, kept |-> 0, blocked |-> 0],
                           blocked |-> FALSE, status |-> 0, code |-> ""]
               /\ UNCHANGED <<inflight, lim, env, users, nextId, now>>
          ELSE LET cfg == RATE_LIMIT_CONFIG[l]
                   req == reqAtLimiter(r)
                   k == keyOf(cfg, req)
                   res == limit(cfg, lim.store[l][k], req, now)
               IN  /\ TotalHits(lim) < MaxHits
                   /\ ~res.blocked => TotalPending(lim) < MaxPending
                   /\ lim' = [lim EXCEPT
                                !.store[l][k] = res.entry,
                                !.pending[l][k] = IF res.counted /\ ~res.blocked THEN @ + 1 ELSE @,
                                !.blocked[l][k] = IF res.blocked THEN @ + 1 ELSE @]
                   /\ last' = [op |-> "limit", req |-> r, limiter |-> l, key |-> k, at |-> now,
                               before |-> [count |-> lim.store[l][k].count,
                                           pending |-> lim.pending[l][k],
                                           kept |-> lim.kept[l][k],
                                           blocked |-> lim.blocked[l][k]],
                               blocked |-> res.blocked, status |-> res.status, code |-> res.code]
                   /\ UNCHANGED <<inflight, env, users, nextId, now>>

\* the handler behind a limiter answers a request that was passed on
Finish ==
    \E l \in MountedLimiters, k \in Ips, status \in HandlerStatuses :
      /\ lim.pending[l][k] > 0
      /\ lim' = [lim EXCEPT
                   !.store[l][k] = finish(RATE_LIMIT_CONFIG[l], @, status),
                   !.pending[l][k] = @ - 1,
                   !.kept[l][k] = IF l = "auth" /\ status < 400 THEN @ ELSE @ + 1]
      /\ last' = [op |-> "finish", limiter |-> l, key |-> k, at |-> now, status |-> status]
      /\ UNCHANGED <<inflight, env, users, nextId, now>>

\* time passes while no request is being served; records whose window has
\* ended are dropped from the stores
TickLimit ==
    /\ TotalPending(lim) = 0
    /\ \E t \in LimitInstants :
         /\ t > now
         /\ now' = t
         /\ LET over(l, k) == lim.store[l][k].resetAt # 0 /\ lim.store[l][k].resetAt <= t IN
            lim' = [store |-> [l \in MountedLimiters |-> [k \in Ips |->
                                 IF over(l, k) THEN NoHits ELSE lim.store[l][k]]],
                    pending |-> lim.pending,
                    kept |-> [l \in MountedLimiters |-> [k \in Ips |->
                                 IF over(l, k) THEN 0 ELSE lim.kept[l][k]]],
                    blocked |-> [l \in MountedLimiters |-> [k \in Ips |->
                                 IF over(l, k) THEN 0 ELSE lim.blocked[l][k]]],
                    lifted |-> lim.lifted \cup
                               {p \in MountedLimiters \X Ips :
                                   over(p[1], p[2]) /\ lim.blocked[p[1]][p[2]] > 0}]
    /\ last' = [op |-> "tick"]
    /\ UNCHANGED <<inflight, env, users, nextId>>

Next ==
    \/ Tick
    \/ EndRequest
    \/ AuthenticateReq
    \/ OptionalAuthReq
    \/ AuthorizeReq
    \/ AdminUsersReq
    \/ GenerateAuthTokensCall
    \/ RegisterReq
    \/ LoginReq
    \/ RefreshTokenReq
    \/ ForgotPasswordReq
    \/ ResetPasswordReq
    \/ LogoutReq
    \/ ResetPasswordAgainReq
    \/ GetProfileReq
    \/ IsTokenExpiredCall

Spec == Init /\ [][Next]_vars

\* The account routes: registration, profile and password maintenance
InitAccount ==
    /\ env \in {e \in EnvConfigs : e.nodeEnv = "development"}
    /\ users \in SeedTables
    /\ nextId = 3
    /\ now = 0
    /\ lim = NoTraffic
    /\ inflight = {}
    /\ last = Idle

NextAccount ==
    \/ EndRequest
    \/ RegisterReq
    \/ ResetPasswordReq
    \/ UpdateProfileReq
    \/ ChangePasswordReq

SpecAccount == InitAccount /\ [][NextAccount]_vars

\* The routes behind a rate limiter, their requests served concurrently
InitLimit ==
    /\ env \in {e \in EnvConfigs : e.nodeEnv = "development"}
    /\ users \in {t \in SeedTables : Cardinality(t) = 2}
    /\ nextId = 3
    /\ now = 0
    /\ lim = NoTraffic
    /\ inflight = {}
    /\ last = Idle

NextLimit ==
    \/ Arrive
    \/ Finish
    \/ TickLimit

SpecLimit == InitLimit /\ [][NextLimit]_vars


\* Registration with the handlers' awaits interleaved
InitRegister ==
    /\ env \in {e \in EnvConfigs : e.nodeEnv = "development"}
    /\ users \in SeedTables
    /\ nextId = 3
    /\ now = 0
    /\ lim = NoTraffic
    /\ inflight = {}
    /\ last = Idle

NextRegister ==
    \/ RegisterCheck
    \/ RegisterCreate

SpecRegister == InitRegister /\ [][NextRegister]_vars

\* Sessions: tokens issued earlier are presented while the accounts they
\* were issued to change
InitSession ==
    /\ env \in {e \in EnvConfigs : e.nodeEnv = "development"}
    /\ users \in {t \in SeedTables : Cardinality(t) = 2}
    /\ nextId = 3
    /\ now = 0
    /\ lim = NoTraffic
    /\ inflight = {}
    /\ last = Idle

NextSession ==
    \/ Tick
    \/ EndRequest
    \/ ProtectedReq
    \/ DbEdit
    \/ ResetPasswordReq
    \/ ChangePasswordReq

SpecSession == InitSession /\ [][NextSession]_vars
(***************************************************************************)
(* Properties                                                              *)
(***************************************************************************)
\* the secret a token of type ty is signed with and verified against
SecretFor(ty) ==
    LET own == CASE ty = "access" -> env.access [] ty = "refresh" -> env.refresh
                 [] OTHER -> env.reset
    IN  IF own # NoSecret THEN own ELSE env.shared

\* tok is a token the server minted (signed with the secret of its own type)
ServerMinted(tok) == tok.kind = "jwt" /\ tok.sig # NoSecret /\ tok.sig = SecretFor(tok.tokenType)

\* C1: authenticate calls next exactly when the request carries a Bearer
\* token that is signed with the access secret, unexpired and typed access;
\* then req.user is {id, email, role} of the claims, otherwise next is not
\* called and req.user is not set.
C1_AuthenticateIffValidAccessToken ==
    last.op = "authenticate" =>
        LET h == last.header
            valid == /\ h.scheme = "Bearer" /\ Len(h.rest) >= 1
                     /\ h.rest[1].kind = "jwt"
                     /\ SecretFor("access") # NoSecret
                     /\ h.rest[1].sig = SecretFor("access")
                     /\ last.at < h.rest[1].exp
                     /\ h.rest[1].tokenType = "access"
        IN  /\ last.res.next <=> valid
            /\ valid => last.res.user = [id |-> h.rest[1].userId, email |-> h.rest[1].email,
                                         role |-> h.rest[1].role]
            /\ ~valid => last.res.user = NoUser

C1_Witness ==
    /\ last.op = "authenticate" /\ last.res.next
    /\ last.res.user = [id |-> 1, email |-> "admin@telford.com", role |-> "admin"]

\* C2 as stated: under every secret configuration a refresh or reset token
\* presented to authenticate gets 401 INVALID_TOKEN_TYPE, an access or reset
\* token presented to verifyRefreshToken gets 401 INVALID_REFRESH_TOKEN, and
\* next is never called.
C2_Original ==
    /\ (/\ last.op = "authenticate" /\ startsWithBearer(last.header)
        /\ ServerMinted(last.header.rest[1])
        /\ last.header.rest[1].tokenType \in {"refresh", "reset"}
        /\ last.at < last.header.rest[1].exp)
       => (last.res.status = 401 /\ last.res.code = "INVALID_TOKEN_TYPE" /\ ~last.res.next)
    /\ (/\ last.op = "refreshToken" /\ ServerMinted(last.token)
        /\ last.token.tokenType \in {"access", "reset"}
        /\ last.at < last.token.exp)
       => (last.mw.status = 401 /\ last.mw.code = "INVALID_REFRESH_TOKEN" /\ ~last.mw.next)

\* C2 amended: a token minted with one type is never let through by the
\* middleware expecting another type. While unexpired, a refresh or reset
\* token presented to authenticate gets 401 with INVALID_TOKEN_TYPE when
\* its signing secret equals the access secret, MALFORMED_TOKEN when the
\* secrets differ and INVALID_TOKEN when no access secret resolves; an
\* access or reset token presented to verifyRefreshToken gets 401
\* INVALID_REFRESH_TOKEN in every configuration.
C2_TypeMismatchRejected ==
    /\ (/\ last.op = "authenticate" /\ startsWithBearer(last.header)
        /\ ServerMinted(last.header.rest[1])
        /\ last.header.rest[1].tokenType \in {"refresh", "reset"})
       => /\ ~last.res.next /\ last.res.status = 401
          /\ last.at < last.header.rest[1].exp =>
                last.res.code =
                    IF SecretFor("access") = NoSecret THEN "INVALID_TOKEN"
                    ELSE IF last.header.rest[1].sig = SecretFor("access") THEN "INVALID_TOKEN_TYPE"
                    ELSE "MALFORMED_TOKEN"
    /\ (/\ last.op = "refreshToken" /\ ServerMinted(last.token)
        /\ last.token.tokenType \in {"access", "reset"})
       => /\ ~last.mw.next /\ last.mw.status = 401
          /\ last.res.status = 401
          /\ last.at < last.token.exp => last.mw.code = "INVALID_REFRESH_TOKEN"

\* a same-secret access token reached verifyRefreshToken and was turned away
C2_Witness ==
    /\ last.op = "refreshToken" /\ ServerMinted(last.token)
    /\ last.token.tokenType = "access" /\ last.token.sig = SecretFor("refresh")
    /\ last.at < last.token.exp
    /\ last.mw.code = "INVALID_REFRESH_TOKEN"

\* the stored row a request addresses by e-mail, or by username
RowsByEmail(us, email) == {u \in us : u.email = toLowerCase(email)}
RowsByUsername(us, username) == {u \in us : u.username = username}

\* C3: reset-password changes a password only for a reset-typed token: an
\* unexpired access or refresh token submitted as the reset token leaves
\* every stored password as it was and is answered INVALID_RESET_TOKEN,
\* under every secret configuration.
C3_ResetNeedsResetToken ==
    (/\ last.op = "resetPassword" /\ ServerMinted(last.token)
     /\ last.token.tokenType \in {"access", "refresh"}
     /\ last.at < last.token.exp)
    => (users = last.before /\ last.res.code = "INVALID_RESET_TOKEN")

\* C4: refresh-token with an unexpired, correctly signed refresh token of
\* an existing active user answers 200 with a new access token carrying
\* that user's stored id, email and role.
C4_RefreshIssuesAccessToken ==
    (/\ last.op = "refreshToken" /\ ServerMinted(last.token)
     /\ last.token.tokenType = "refresh" /\ last.at < last.token.exp
     /\ \E u \in users : u.id = last.token.userId /\ u.isActive)
    => /\ last.res.status = 200
       /\ last.res.accessToken.kind = "jwt"
       /\ last.res.accessToken.tokenType = "access"
       /\ \E u \in users :
            /\ u.id = last.token.userId
            /\ last.res.accessToken.userId = u.id
            /\ last.res.accessToken.email = u.email
            /\ last.res.accessToken.role = u.role

\* the active account a login request names
LoginTarget ==
    IF last.body.email # Undefined
    THEN {u \in RowsByEmail(users, last.body.email) : u.isActive}
    ELSE {u \in RowsByUsername(users, last.body.username) : u.isActive}

\* C5: for a registered active user, login (by email or by username) with
\* the current password answers 200 with the public identity and an access
\* token; with any other password it answers 401 INVALID_CREDENTIALS and
\* issues no token.
C5_LoginChecksPassword ==
    last.op = "login" =>
        \A u \in LoginTarget :
            IF bcryptCompare(last.body.password, u.password)
            THEN /\ last.res.status = 200
                 /\ last.res.user = getPublicProfile(u)
                 /\ last.res.accessToken.kind = "jwt"
            ELSE /\ last.res.status = 401 /\ last.res.code = "INVALID_CREDENTIALS"
                 /\ last.res.accessToken = EmptyToken /\ last.res.cookie = EmptyToken

\* C6: register with a free username and a free email answers 201 with the
\* public identity and an access token and stores exactly one new record;
\* with a taken email (username) it answers EMAIL_EXISTS (USERNAME_EXISTS)
\* and stores nothing.
C6_RegisterCreatesOrRejects ==
    last.op = "register" =>
        LET emailTaken == RowsByEmail(last.before, last.body.email) # {}
            nameTaken == RowsByUsername(last.before, last.body.username) # {}
        IN  /\ (~emailTaken /\ ~nameTaken) =>
                /\ last.res.status = 201
                /\ last.res.accessToken.kind = "jwt"
                /\ last.before \subseteq users
                /\ Cardinality(users \ last.before) = 1
                /\ \A u \in users \ last.before : last.res.user = getPublicProfile(u)
            /\ (emailTaken /\ ~nameTaken) =>
                (last.res.code = "EMAIL_EXISTS" /\ users = last.before)
            /\ (nameTaken /\ ~emailTaken) =>
                (last.res.code = "USERNAME_EXISTS" /\ users = last.before)
            /\ (nameTaken /\ emailTaken) =>
                (last.res.code \in {"EMAIL_EXISTS", "USERNAME_EXISTS"} /\ users = last.before)

\* C7: login on a deactivated account with its correct password is answered
\* ACCOUNT_DEACTIVATED and issues no token.
C7_LoginDeactivated ==
    last.op = "login" =>
        \A u \in (IF last.body.email # Undefined
                  THEN RowsByEmail(users, last.body.email)
                  ELSE RowsByUsername(users, last.body.username)) :
            (~u.isActive /\ bcryptCompare(last.body.password, u.password))
            => /\ last.res.code = "ACCOUNT_DEACTIVATED"
               /\ last.res.accessToken = EmptyToken /\ last.res.cookie = EmptyToken

\* C8: forgot-password answers every well-formed email alike: status 200
\* and the same payload whether the address has no account, an active
\* account or a deactivated one.
C8_ForgotPasswordUniform ==
    last.op = "forgotPassword" =>
        /\ last.res.status = 200
        /\ \A other \in Emails : forgotPassword(env, users, other, last.at) = last.res

\* C9: authorize lets a request with an identity through exactly when the
\* identity's role is an allowed role, otherwise answers 403
\* INSUFFICIENT_PERMISSIONS with requiredRoles and userRole; without an
\* identity it answers 401 NOT_AUTHENTICATED. Behind authenticate and
\* authorize('admin') the handler runs only for a token whose role is admin.
C9_AuthorizeByRole ==
    /\ last.op = "authorize" =>
        IF last.reqUser = NoUser
        THEN ~last.res.next /\ last.res.status = 401 /\ last.res.code = "NOT_AUTHENTICATED"
        ELSE /\ last.res.next <=> last.reqUser.role \in last.allowedRoles
             /\ last.reqUser.role \notin last.allowedRoles =>
                    /\ last.res.status = 403
                    /\ last.res.code = "INSUFFICIENT_PERMISSIONS"
                    /\ last.res.requiredRoles = last.allowedRoles
                    /\ last.res.userRole = last.reqUser.role
    /\ (last.op = "adminUsers" /\ last.res.handler) =>
        /\ startsWithBearer(last.header)
        /\ last.header.rest[1].role = "admin"
        /\ last.res.user.role = "admin"

\* a moderator's valid token is stopped by authorize('admin')
C9_Witness ==
    /\ last.op = "adminUsers" /\ ~last.res.handler
    /\ last.res.status = 403 /\ last.res.code = "INSUFFICIENT_PERMISSIONS"
    /\ last.res.requiredRoles = {"admin"} /\ last.res.userRole = "moderator"

\* C10: generateAuthTokens(user) returns an access and a refresh token
\* with the same userId, email and role, those of the user, differing in
\* tokenType and expiry; verifying the access token as access returns
\* claims with these three values.
C10_AuthTokensSameSubject ==
    last.op = "generateAuthTokens" =>
        LET a == last.tokens.accessToken
            r == last.tokens.refreshToken
        IN  /\ a.tokenType = "access" /\ r.tokenType = "refresh"
            /\ a.userId = last.user.id /\ a.email = last.user.email /\ a.role = last.user.role
            /\ r.userId = a.userId /\ r.email = a.email /\ r.role = a.role
            /\ last.verified.err = ""
            /\ last.verified.claims.userId = last.user.id
            /\ last.verified.claims.email = last.user.email
            /\ last.verified.claims.role = last.user.role

C10_Witness ==
    /\ last.op = "generateAuthTokens" /\ last.user.role = "moderator"
    /\ last.tokens.refreshToken.role = "moderator"
    /\ last.verified.err = ""

\* the lifetime the configuration gives a token type
TTL(ty) ==
    CASE ty = "access" -> 900 [] ty = "refresh" -> 604800 [] OTHER -> 3600

\* C11: a token minted at iat expires at iat + 900 (access), iat + 604800
\* (refresh) or iat + 3600 (reset) seconds.  Presented at second `at` with its
\* own type, it verifies when at < exp and is rejected as expired when
\* at >= exp: authenticate answers 401 TOKEN_EXPIRED, verifyRefreshToken 401
\* REFRESH_TOKEN_EXPIRED, resetPassword 400 RESET_TOKEN_EXPIRED.
C11_ExpiryBoundary ==
    /\ (last.op = "authenticate" /\ Len(last.header.rest) >= 1
            /\ last.header.scheme = "Bearer"
            /\ ServerMinted(last.header.rest[1])
            /\ last.header.rest[1].tokenType = "access") =>
         LET tok == last.header.rest[1] IN
         /\ tok.exp = tok.iat + TTL("access")
         /\ (last.at < tok.exp => last.res.next)
         /\ (last.at >= tok.exp =>
                ~last.res.next /\ last.res.status = 401 /\ last.res.code = "TOKEN_EXPIRED")
    /\ (last.op = "refreshToken" /\ ServerMinted(last.token)
            /\ last.token.tokenType = "refresh") =>
         /\ last.token.exp = last.token.iat + TTL("refresh")
         /\ (last.at < last.token.exp => last.mw.next)
         /\ (last.at >= last.token.exp =>
                ~last.mw.next /\ last.mw.status = 401
                /\ last.mw.code = "REFRESH_TOKEN_EXPIRED")
    /\ (last.op = "resetPassword" /\ ServerMinted(last.token)
            /\ last.token.tokenType = "reset") =>
         /\ last.token.exp = last.token.iat + TTL("reset")
         /\ (last.at < last.token.exp => last.res.code # "RESET_TOKEN_EXPIRED")
         /\ (last.at >= last.token.exp =>
                last.res.status = 400 /\ last.res.code = "RESET_TOKEN_EXPIRED")

\* an access token is refused in the very second it expires
C11_Witness ==
    /\ last.op = "authenticate" /\ Len(last.header.rest) >= 1
    /\ last.header.scheme = "Bearer" /\ ServerMinted(last.header.rest[1])
    /\ last.header.rest[1].tokenType = "access"
    /\ last.at = last.header.rest[1].exp
    /\ last.res.code = "TOKEN_EXPIRED"

\* the row of `us` the last request was about: the caller's row on the
\* account routes, the row of the token's address on reset
CallerRows(us) ==
    IF last.op \in {"updateProfile", "changePassword"}
    THEN {u \in us : Len(last.header.rest) >= 1 /\ u.id = last.header.rest[1].userId}
    ELSE IF last.op = "resetPassword"
    THEN {u \in us : last.token.email # Undefined /\ u.email = toLowerCase(last.token.email)}
    ELSE {}

\* value is stored as one salted hash of the password value v
HashedOnce(value, v) == \E s \in Salts : value = <<BcryptPrefix, s>> \o v

C12_WitnessChange ==
    /\ last.op = "changePassword" /\ last.res.status = 200
    /\ \A u \in CallerRows(last.before) :
          \E v \in CallerRows(users) :
              v.password # u.password /\ HashedOnce(v.password, last.newPassword)

\* plaintexts a caller may try
Candidates ==
    {"AdminPassword123!", "Password123!", "NewPass456!", "password123!", Long72A, Long72B}

\* C13: no stored password equals a supplied plaintext, and after a request
\* that set a password (register, change-password, reset-password)
\* comparePassword(q) on that user is true exactly when q is the password that
\* was set; a profile update changes no comparison.
C13_PasswordRoundTrip ==
    /\ \A u \in users : \A q \in Candidates : u.password # Plain(q)
    /\ (last.op = "register" /\ users # last.before) =>
          \A u \in users \ last.before : \A q \in Candidates :
              comparePassword(u, q) <=> q = last.body.password
    /\ (last.op = "changePassword" /\ last.res.status = 200) =>
          \A u \in CallerRows(users) : \A q \in Candidates :
              comparePassword(u, q) <=> Plain(q) = last.newPassword
    /\ (last.op = "resetPassword" /\ last.res.status = 200) =>
          \A u \in CallerRows(users) : \A q \in Candidates :
              comparePassword(u, q) <=> q = last.password
    /\ last.op = "updateProfile" =>
          \A u \in last.before : \A v \in users : \A q \in Candidates :
              v.id = u.id => (comparePassword(v, q) <=> comparePassword(u, q))

\* C14: verifyRefreshToken looks at the request body only.  Without a body
\* token it answers 400 NO_REFRESH_TOKEN whatever cookie came along; a token
\* that is corrupt or not signed with the refresh secret gets 401
\* INVALID_REFRESH_TOKEN; a properly signed one that has expired gets 401
\* REFRESH_TOKEN_EXPIRED; a properly signed, unexpired one whose type is not
\* refresh gets 401 INVALID_REFRESH_TOKEN; only otherwise are the claims
\* attached as req.refreshTokenData and next called.
C14_RefreshMiddlewareMapping ==
    last.op = "refreshToken" =>
        LET tok == last.token
            mw == last.mw
            signed == /\ tok.kind = "jwt" /\ SecretFor("refresh") # NoSecret
                      /\ tok.sig = SecretFor("refresh")
        IN  /\ tok.kind = "empty" =>
                  ~mw.next /\ mw.status = 400 /\ mw.code = "NO_REFRESH_TOKEN"
            /\ (tok.kind # "empty" /\ ~signed) =>
                  ~mw.next /\ mw.status = 401 /\ mw.code = "INVALID_REFRESH_TOKEN"
            /\ (signed /\ last.at >= tok.exp) =>
                  ~mw.next /\ mw.status = 401 /\ mw.code = "REFRESH_TOKEN_EXPIRED"
            /\ (signed /\ last.at < tok.exp /\ tok.tokenType # "refresh") =>
                  ~mw.next /\ mw.status = 401 /\ mw.code = "INVALID_REFRESH_TOKEN"
            /\ (signed /\ last.at < tok.exp /\ tok.tokenType = "refresh") =>
                  mw.next /\ mw.data = tok
            /\ mw.next => (signed /\ last.at < tok.exp /\ tok.tokenType = "refresh")

\* a request whose only refresh token is a valid one in the cookie
C14_Witness ==
    /\ last.op = "refreshToken" /\ last.token.kind = "empty"
    /\ ServerMinted(last.cookie) /\ last.cookie.tokenType = "refresh"
    /\ last.at < last.cookie.exp
    /\ last.mw.code = "NO_REFRESH_TOKEN"

\* an expired access token under a shared secret is reported as expired
C14_WitnessExpiredFirst ==
    /\ last.op = "refreshToken" /\ ServerMinted(last.token)
    /\ last.token.tokenType = "access" /\ last.mw.code = "REFRESH_TOKEN_EXPIRED"

\* C15: optionalAuth never answers the request itself and calls next exactly
\* once, whatever the Authorization header holds; req.user is attached
\* exactly when the header is Bearer with a token signed with the access
\* secret, unexpired and typed access, and then it is that token's identity.
C15_OptionalAuthNeverRejects ==
    last.op = "optionalAuth" =>
        LET h == last.header
            valid == /\ h.scheme = "Bearer" /\ Len(h.rest) >= 1
                     /\ h.rest[1].kind = "jwt"
                     /\ SecretFor("access") # NoSecret
                     /\ h.rest[1].sig = SecretFor("access")
                     /\ last.at < h.rest[1].exp
                     /\ h.rest[1].tokenType = "access"
        IN  /\ ~last.res.responded
            /\ last.res.nextCalls = 1
            /\ valid <=> last.res.user # NoUser
            /\ valid => last.res.user = [id |-> h.rest[1].userId, email |-> h.rest[1].email,
                                         role |-> h.rest[1].role]

\* an unexpired refresh token that verifies under the shared secret is let
\* through without an identity
C15_Witness ==
    /\ last.op = "optionalAuth" /\ Len(last.header.rest) >= 1
    /\ last.header.scheme = "Bearer"
    /\ ServerMinted(last.header.rest[1]) /\ last.header.rest[1].tokenType = "refresh"
    /\ last.header.rest[1].sig = SecretFor("access")
    /\ last.at < last.header.rest[1].exp
    /\ last.res.nextCalls = 1 /\ last.res.user = NoUser

\* a valid access token attaches its identity
C15_WitnessAttached ==
    /\ last.op = "optionalAuth" /\ last.res.user # NoUser /\ last.res.nextCalls = 1

\* the request the limiter decided on carries an admin's access token
AdminCaller == last.req.bearer # NoUser /\ last.req.bearer.role = "admin"

\* C16: a request that carries an admin identity is never answered 429 by a
\* rate limiter, however many requests came before it in the window, and a
\* request to /api/health or /api/docs is never answered 429.
C16_ThrottlingExemptions ==
    (last.op = "limit" /\ (AdminCaller \/ last.req.path \in {"/api/health", "/api/docs"}))
        => ~last.blocked

\* requests of the window of the decided key that still count against it:
\* answered with a failure (any answer, for password reset), answered 429,
\* or passed on and not answered yet
StillCounted == last.before.kept + last.before.blocked + last.before.pending

C17_WitnessStillBlocked ==
    /\ last.op = "limit" /\ last.blocked /\ last.before.blocked >= 1

\* C18: the counter a throttled request is counted under is keyed
\* user:{userId} when the request carries an authenticated identity and by
\* the caller's address otherwise.
C18_BucketingKey ==
    (last.op = "limit" /\ last.limiter # "none") =>
        last.key = (IF last.req.bearer # NoUser
                    THEN "user:" \o ToString(last.req.bearer.id)
                    ELSE last.req.ip)

C19_WitnessSuccess ==
    /\ last.op = "finish" /\ last.limiter = "auth" /\ last.status = 200
    /\ lim.store["auth"][last.key].count = 0
    /\ lim.store["auth"][last.key].resetAt # 0

C21_MissingSecretAbortsStartup ==
    (\E ty \in {"access", "refresh", "reset"} : SecretFor(ty) = NoSecret) => last = Idle

\* C22: logout changes no server-side state and revokes nothing: the users
\* table after logout is the table before it, and a refresh token that
\* verifyRefreshToken accepted when logout began is accepted after a
\* successful logout at every instant before the token's own expiry (and at
\* no later one).
C22_LogoutRevokesNothing ==
    last.op = "logout" =>
        /\ users = last.before
        /\ (last.res.status = 200 /\ last.accepted) =>
              last.later = {t \in Instants : last.at <= t /\ t < last.refresh.exp}

C22_Witness ==
    /\ last.op = "logout" /\ last.res.status = 200 /\ last.accepted
    /\ last.at > 0
    /\ Cardinality(last.later) >= 2
    /\ last.header.rest[1].userId = last.refresh.userId

\* C23: a reset token authorizes one reset only: a reset-password request
\* presenting the token of an earlier successful reset is rejected and leaves
\* the stored passwords as they were, even while the token is unexpired.
C23_ResetTokenOneTime ==
    last.op = "resetPasswordAgain" =>
        /\ last.res.status # 200
        /\ users = last.before

\* C24: the password hash is never exposed: the public profile of every
\* stored user has no password field, a row loaded under the default scope
\* carries no password, the withPassword scope and the for-auth lookups do
\* carry the stored hash, and no success response of register, login or me
\* has a password field in its user.
C24_HashNeverExposed ==
    /\ \A u \in users :
         /\ "password" \notin DOMAIN getPublicProfile(u)
         /\ "password" \notin DOMAIN getPublicProfile(defaultScope(u))
         /\ defaultScope(u).password = <<>>
         /\ withPassword(u).password = u.password /\ u.password # <<>>
    /\ \A u \in UNION ({findByEmailForAuth(users, m) : m \in Emails} \cup
                       {findByUsernameForAuth(users, n) : n \in Usernames}) :
         u.password # <<>> /\ u.password[1] = BcryptPrefix
    /\ (last.op \in {"register", "login", "me"} /\ last.res.status \in {200, 201}) =>
         /\ "password" \notin DOMAIN last.res.user
         /\ last.res.user.id # NoId

C24_Witness ==
    /\ last.op = "me" /\ last.res.status = 200
    /\ \E u \in users : u.id = last.res.user.id /\ u.password[3] = "NewPass456!"
    /\ findByEmailForAuth(users, last.res.user.email) # {}

C25_WitnessCaught ==
    /\ last.op = "authenticate" /\ startsWithBearer(last.header)
    /\ SecretFor("access") = NoSecret
    /\ last.res.status = 401 /\ last.res.code = "INVALID_TOKEN"

\* C26: change-password with a currentPassword that does not match the
\* stored hash is answered 401 INCORRECT_PASSWORD and leaves the table as it
\* was; with one that matches it is answered 200, and afterwards the
\* caller's stored hash matches newPassword and no longer matches
\* currentPassword, every other user's record being unchanged.
C26_ChangePassword ==
    (last.op = "changePassword" /\ last.res.status \in {200, 401}
        /\ startsWithBearer(last.header) /\ last.res.code \in {"", "INCORRECT_PASSWORD"}) =>
        LET id == last.header.rest[1].userId
            was == CHOOSE u \in last.before : u.id = id
        IN  /\ last.res.code = "INCORRECT_PASSWORD" <=> ~comparePassword(was, last.currentPassword)
            /\ last.res.status = 401 => users = last.before
            /\ last.res.status = 200 =>
                 /\ {u \in users : u.id # id} = {u \in last.before : u.id # id}
                 /\ \A u \in users : u.id = id =>
                      /\ u.password = bcryptHash(last.newPassword, u.password[2])
                      /\ ~comparePassword(u, last.currentPassword)

\* C27: register is all-or-nothing: when register answers anything but 201
\* (EMAIL_EXISTS, USERNAME_EXISTS, REGISTRATION_ERROR) the stored users are
\* those before the request, and a record is created for the submitted
\* username and email only when the response is 201.
C27_RegisterAllOrNothing ==
    last.op = "register" =>
        /\ last.res.status # 201 => users = last.before
        /\ (\E u \in users \ last.before :
               u.username = last.body.username \/ u.email = toLowerCase(last.body.email))
           => last.res.status = 201

\* C28: when register requests with the same email or the same username
\* interleave, at most one user record with that email (username) is ever
\* stored, and a request that passed its existence check but does not create
\* the record is answered 400 EMAIL_EXISTS or USERNAME_EXISTS, not a generic
\* server error.
C28_ConcurrentRegistration ==
    /\ \A u, v \in users : (u.email = v.email \/ u.username = v.username) => u = v
    /\ (last.op = "registerCreate" /\ ~last.created) =>
          /\ last.res.status = 400
          /\ last.res.code =
                IF \E u \in users : u.email = toLowerCase(last.body.email)
                THEN "EMAIL_EXISTS" ELSE "USERNAME_EXISTS"

\* C29: isTokenExpired agrees with verification on expiry at every instant:
\* for a decodable token with an exp claim it returns true exactly when the
\* current second is >= exp, the instants at which verifyToken fails a
\* properly signed token as expired; for a token that cannot be decoded or
\* has no exp claim it returns true.
C29_IsTokenExpiredAgrees ==
    last.op = "isTokenExpired" =>
        /\ (last.token.kind = "jwt" /\ last.token.exp # 0) =>
              /\ last.res <=> last.at >= last.token.exp
              /\ ServerMinted(last.token) =>
                    (last.res <=> last.verify = "TokenExpiredError")
        /\ (last.token.kind # "jwt" \/ last.token.exp = 0) => last.res

\* C30: authenticate's decision depends only on the token, the access secret
\* and the clock, never on stored user state.  Always: an access token that
\* is signed with the access secret and unexpired is let through with
\* req.user = {id, email, role} as issued, whatever the users table holds;
\* and no step that changes the table (deactivation, deletion, a new role,
\* a changed or reset password) changes what a protected route makes of any
\* issued token at that moment.
C30_AuthenticateIgnoresUsers ==
    /\ [](last.op = "protected" =>
            LET tok == last.header.rest[1] IN
            /\ last.res.next <=> last.at < tok.exp
            /\ last.res.next =>
                 last.res.user = [id |-> tok.userId, email |-> tok.email, role |-> tok.role])
    /\ [][users' # users =>
            \A h \in IssuedHeaders(env) :
               protectedRoute(env', users', h, now') = protectedRoute(env, users, h, now)]_vars

\* the token's user has since been demoted and deactivated and has another
\* password than at issuance
C30_Witness ==
    /\ last.op = "protected" /\ last.res.next /\ last.at > 0
    /\ \E u \in users :
         /\ u.id = last.header.rest[1].userId
         /\ u.role # last.header.rest[1].role
         /\ ~u.isActive
         /\ u.password # AdminRow.password
    /\ last.res.user.role = "admin"

\* the token's user has since been deleted
C30_WitnessDeleted ==
    /\ last.op = "protected" /\ last.res.next
    /\ ~\E u \in users : u.id = last.header.rest[1].userId
====
